---- MODULE Spec2Model ----
(***************************************************************************)
(* WorkoutOrganizer: the migration pipeline of workout_reorganizer.py.     *)
(*                                                                         *)
(* Python strings are modelled as sequences of one-character strings, so   *)
(* that concatenation, slicing, substring search and str.title() are       *)
(* computed, not assumed.  The value gspread's batch_get returns is kept   *)
(* in its 3-D shape: one entry per requested range, each entry a list of   *)
(* rows, each row a list of cell strings; an empty range is the empty list.*)
(***************************************************************************)
EXTENDS Integers, Sequences, FiniteSets, TLC

\* ------------------------------------------------------------------ bounds
MaxDocs == 2
MaxSheets == 2
MaxFails == 6

\* ------------------------------------------------------- program constants
StopAfterAttempt == 5
WaitMultiplier == 1
WaitMin == 1
WaitMax == 60
MaxWorkers == 5
MaxTitleLen == 175

\* ------------------------------------------------------------ Python str
LowerChars == <<"a","b","c","d","e","f","g","h","i","j","k","l","m",
                "n","o","p","q","r","s","t","u","v","w","x","y","z">>
UpperChars == <<"A","B","C","D","E","F","G","H","I","J","K","L","M",
                "N","O","P","Q","R","S","T","U","V","W","X","Y","Z">>
DigitChars == <<"0","1","2","3","4","5","6","7","8","9">>

IsLower(c) == \E i \in DOMAIN LowerChars : LowerChars[i] = c
IsUpper(c) == \E i \in DOMAIN UpperChars : UpperChars[i] = c

ToUpper(c) ==
    IF IsLower(c)
    THEN UpperChars[CHOOSE i \in DOMAIN LowerChars : LowerChars[i] = c]
    ELSE c

ToLower(c) ==
    IF IsUpper(c)
    THEN LowerChars[CHOOSE i \in DOMAIN UpperChars : UpperChars[i] = c]
    ELSE c

\* str.lower()
StrLower(s) == [i \in DOMAIN s |-> ToLower(s[i])]

\* U+00DF (sharp s), written as one model character: a lower-case letter
\* whose title-case form is the two characters "Ss" and whose lower-case form
\* is itself.
SharpS == "sharp-s"

IsCased(c) == IsLower(c) \/ IsUpper(c) \/ c = SharpS

\* The title-case mapping of one character.
ToTitle(c) == IF c = SharpS THEN <<"S", "s">> ELSE <<ToUpper(c)>>

\* The concatenation of seqs[lo], ..., seqs[hi], by halves.
RECURSIVE ConcatRange(_, _, _)
ConcatRange(seqs, lo, hi) ==
    IF lo > hi THEN <<>>
    ELSE IF lo = hi THEN seqs[lo]
    ELSE LET mid == (lo + hi) \div 2
         IN  ConcatRange(seqs, lo, mid) \o ConcatRange(seqs, mid + 1, hi)

\* The concatenation of a sequence of sequences.
Concat(seqs) == ConcatRange(seqs, 1, Len(seqs))

\* str.title(): a character is title-cased when the character before it is
\* not cased, and lower-cased when it is.
RECURSIVE TitleRange(_, _, _)
TitleRange(s, lo, hi) ==
    IF lo > hi THEN <<>>
    ELSE IF lo = hi
    THEN LET prevCased == lo > 1 /\ IsCased(s[lo - 1])
         IN  IF prevCased THEN <<ToLower(s[lo])>> ELSE ToTitle(s[lo])
    ELSE LET mid == (lo + hi) \div 2
         IN  TitleRange(s, lo, mid) \o TitleRange(s, mid + 1, hi)

\* (s is evaluated once, then title-cased.)
StrTitle(s) == CHOOSE t \in {TitleRange(v, 1, Len(v)) : v \in {s}} : TRUE

\* s[:n]
StrPrefix(s, n) == IF Len(s) > n THEN SubSeq(s, 1, n) ELSE s

\* needle in hay
StrContains(hay, needle) ==
    \E i \in 0..(Len(hay) - Len(needle)) :
        SubSeq(hay, i + 1, i + Len(needle)) = needle

\* str(n) for n >= 0
RECURSIVE IntToStr(_)
IntToStr(n) ==
    IF n < 10 THEN <<DigitChars[n + 1]>>
    ELSE IntToStr(n \div 10) \o <<DigitChars[(n % 10) + 1]>>

\* --------------------------------------------------------------- literals
EmptyStr == <<>>
NameMarker == <<"N","a","m","e",":"," ">>
FoundationMarker == <<"F","o","u","n","d","a","t","i","o","n"," ","1">>
TitleSeparator == <<" ","-"," ">>
StrY == <<"y">>

ClientA == <<"C","l","i","e","n","t"," ","A">>
ClientB == <<"C","l","i","e","n","t"," ","B">>
ClientC == <<"C","l","i","e","n","t"," ","C">>
Jane == <<"J","a","n","e">>
Bob == <<"B","o","b">>
Week1 == <<"W","e","e","k"," ","1">>
LegDay == <<"l","e","g"," ","d","a","y">>
UpperBody == <<"u","p","p","e","r"," ","b","o","d","y">>
Legs == <<"L","E","G","S">>

\* ------------------------------------------------------ translation table
\* SpreadsheetRow.should_skip
should_skip(skip) ==
    IF skip # EmptyStr
    THEN (IF StrLower(skip) = StrY THEN TRUE ELSE FALSE)
    ELSE FALSE

\* SpreadsheetRow.__init__
SpreadsheetRow(original_name, description, skip) ==
    [original_name |-> original_name,
     description   |-> description,
     skip          |-> should_skip(skip)]

\* The list comprehension of get_translation_data over the raw records.
RowsOf(records) ==
    [j \in DOMAIN records |->
        SpreadsheetRow(records[j][1], records[j][2], records[j][3])]

\* The raw records (Original Name, Description, Skip?) of the translation
\* sheet: both original names appear twice, with opposite Skip? answers.
RawTable == << <<ClientA, UpperBody, EmptyStr>>,
               <<ClientB, Legs, <<"y">> >>,
               <<ClientA, LegDay, <<"Y">> >>,
               <<ClientB, LegDay, <<"n">> >> >>

Titles == {ClientA, ClientB, ClientC}

\* Index of the first row the for-loop / generator reaches with a matching
\* original_name; 0 when the scan ends without one.
FirstMatchIndex(source_title, translations) ==
    LET hits == {j \in DOMAIN translations :
                    translations[j].original_name = source_title}
    IN  IF hits = {} THEN 0
        ELSE CHOOSE j \in hits : \A h \in hits : j <= h

should_process_spreadsheet_LastMatch(spreadsheet_title, translations) ==
    LET hits == {j \in DOMAIN translations :
                    translations[j].original_name = spreadsheet_title}
    IN  IF hits = {} THEN FALSE
        ELSE ~translations[CHOOSE j \in hits : \A h \in hits : j >= h].skip

should_process_spreadsheet(spreadsheet_title, translations) ==
    LET j == FirstMatchIndex(spreadsheet_title, translations)
    IN  IF j = 0 THEN FALSE ELSE ~translations[j].skip

translate_workout_name_FirstNonEmpty(source_title, translated_data) ==
    LET hits == {j \in DOMAIN translated_data :
                    /\ translated_data[j].original_name = source_title
                    /\ translated_data[j].description # EmptyStr}
    IN  IF hits = {} THEN source_title
        ELSE translated_data[CHOOSE j \in hits : \A h \in hits : j <= h]
                .description

translate_workout_name(source_title, translated_data) ==
    LET j == FirstMatchIndex(source_title, translated_data)
        translated_name == IF j = 0 THEN EmptyStr
                           ELSE translated_data[j].description
    IN  IF translated_name # EmptyStr THEN translated_name ELSE source_title

\* ---------------------------------------------------------- canary cells
\* One range of a batch_get response: no rows for an empty cell, else one
\* row holding the one value.
Cell(s) == IF s = EmptyStr THEN <<>> ELSE << <<s>> >>

\* The response for the ranges A1, B1, B2, B3, B4.
Snapshot(a1, b1, b2, b3, b4) ==
    <<Cell(a1), Cell(b1), Cell(b2), Cell(b3), Cell(b4)>>

\* location is 0-based, as in the source.
get_value_at_location(canary_cells, location) ==
    IF canary_cells[location + 1] # <<>>
    THEN canary_cells[location + 1][1][1]
    ELSE EmptyStr

get_workout_description_ByNameCell(canary_cells) ==
    LET canary_cell_value == get_value_at_location(canary_cells, 0)
        new_name == get_value_at_location(canary_cells, 1)
        newer_description == get_value_at_location(canary_cells, 2)
        older_description == get_value_at_location(canary_cells, 4)
    IN  IF canary_cell_value = EmptyStr /\ new_name = EmptyStr
        THEN older_description ELSE newer_description

get_workout_description(canary_cells) ==
    LET canary_cell_value == get_value_at_location(canary_cells, 0)
        newer_description == get_value_at_location(canary_cells, 2)
        older_description == get_value_at_location(canary_cells, 4)
    IN  IF canary_cell_value = EmptyStr
        THEN older_description ELSE newer_description

flatten_3d_list(data) == Concat(Concat(data))

is_valid_workout_NoBlankCheck(canary_cells, previous_description) ==
    LET canary_cell_value ==
            IF canary_cells[1] # <<>> THEN canary_cells[1][1][1] ELSE EmptyStr
        is_foundation_workout ==
            StrContains(previous_description, FoundationMarker)
    IN  ~(canary_cell_value = NameMarker \/ is_foundation_workout)

is_valid_workout_ExactFoundation(canary_cells, previous_description) ==
    LET canary_cell_value ==
            IF canary_cells[1] # <<>> THEN canary_cells[1][1][1] ELSE EmptyStr
        flat == flatten_3d_list(canary_cells)
        completely_blank == ~(\E n \in DOMAIN flat : flat[n] # EmptyStr)
        is_foundation_workout == previous_description = FoundationMarker
    IN  ~(canary_cell_value = NameMarker \/ is_foundation_workout
          \/ completely_blank)

is_valid_workout(canary_cells, previous_description) ==
    LET canary_cell_value ==
            IF canary_cells[1] # <<>> THEN canary_cells[1][1][1] ELSE EmptyStr
        flat == flatten_3d_list(canary_cells)
        completely_blank == ~(\E n \in DOMAIN flat : flat[n] # EmptyStr)
        is_foundation_workout ==
            StrContains(previous_description, FoundationMarker)
    IN  IF (canary_cell_value = NameMarker \/ is_foundation_workout
            \/ completely_blank)
        THEN FALSE ELSE TRUE

\* The write delete_client_data issues: "B1:D1", "B3" or "none" (no call).
RedactionRange(canary_cells) ==
    LET old_name == get_value_at_location(canary_cells, 3)
        new_name == get_value_at_location(canary_cells, 1)
    IN  IF new_name # EmptyStr THEN "B1:D1"
        ELSE IF old_name # EmptyStr THEN "B3"
        ELSE "none"

\* A worksheet is a grid of cell strings indexed by <<row, column>>.
SheetRows == 1..4
SheetCols == 1..5
SheetCells == SheetRows \X SheetCols

\* sheet.batch_get(["A1", "B1", "B2", "B3", "B4"])
get_canary_cells(sheet) ==
    Snapshot(sheet[<<1, 1>>], sheet[<<1, 2>>], sheet[<<2, 2>>],
             sheet[<<3, 2>>], sheet[<<4, 2>>])

\* The cells of an A1-notation range the program writes to.
RangeCells(range) ==
    IF range = "B1:D1" THEN {<<1, 2>>, <<1, 3>>, <<1, 4>>}
    ELSE IF range = "B3" THEN {<<3, 2>>}
    ELSE {}

delete_client_data_BothNames(canary_cells, sheet) ==
    LET old_name == get_value_at_location(canary_cells, 3)
        new_name == get_value_at_location(canary_cells, 1)
        ranges == (IF new_name # EmptyStr THEN <<"B1:D1">> ELSE <<>>)
                     \o (IF old_name # EmptyStr THEN <<"B3">> ELSE <<>>)
    IN  [calls |-> ranges,
         sheet |-> [c \in DOMAIN sheet |->
                      IF \E n \in DOMAIN ranges : c \in RangeCells(ranges[n])
                      THEN EmptyStr ELSE sheet[c]]]

delete_client_data_ReadsSheet(canary_cells, sheet) ==
    LET range == RedactionRange(get_canary_cells(sheet))
    IN  [calls |-> IF range = "none" THEN <<>> ELSE <<range>>,
         sheet |-> [c \in DOMAIN sheet |->
                      IF c \in RangeCells(range) THEN EmptyStr ELSE sheet[c]]]

\* One run of delete_client_data's body on the worksheet `sheet`: the ranges
\* of the write calls it makes (batch_update of B1:D1 with three empty
\* strings, or update_cell(3, 2, "")), and the worksheet after them.
delete_client_data(canary_cells, sheet) ==
    LET range == RedactionRange(canary_cells)
    IN  [calls |-> IF range = "none" THEN <<>> ELSE <<range>>,
         sheet |-> [c \in DOMAIN sheet |->
                      IF c \in RangeCells(range) THEN EmptyStr ELSE sheet[c]]]

\* sheet_index is Worksheet.index (0-based).
get_dest_spreadsheet_title_NoTitleCase(source_title, sheet_index, previous_description, translated_data) ==
    LET translated_source_title ==
            translate_workout_name(source_title, translated_data)
        count == sheet_index + 1
        joined == previous_description \o TitleSeparator
                     \o translated_source_title
    IN  StrPrefix(joined, MaxTitleLen) \o <<" ">> \o IntToStr(count)

get_dest_spreadsheet_title_SuffixFirst(source_title, sheet_index, previous_description, translated_data) ==
    LET translated_source_title ==
            translate_workout_name(source_title, translated_data)
        count == sheet_index + 1
        new_spreadsheet_name == previous_description \o TitleSeparator
                                   \o translated_source_title
                                   \o <<" ">> \o IntToStr(count)
    IN  StrTitle(StrPrefix(new_spreadsheet_name, MaxTitleLen))

get_dest_spreadsheet_title(source_title, sheet_index, previous_description, translated_data) ==
    LET translated_source_title ==
            translate_workout_name(source_title, translated_data)
        count == sheet_index + 1
        new_spreadsheet_name == previous_description \o TitleSeparator
                                   \o translated_source_title
        truncated == IF Len(new_spreadsheet_name) > MaxTitleLen
                     THEN SubSeq(new_spreadsheet_name, 1, MaxTitleLen)
                     ELSE new_spreadsheet_name
    IN  StrTitle(truncated \o <<" ">> \o IntToStr(count))

\* Snapshots the store answers with in the pipeline runs.
SnapE2E == Snapshot(EmptyStr, Jane, Week1, EmptyStr, EmptyStr)
SnapOld == Snapshot(EmptyStr, EmptyStr, EmptyStr, Bob, LegDay)
SnapNoName == Snapshot(ClientA, EmptyStr, Week1, EmptyStr, EmptyStr)
SnapBlank == Snapshot(EmptyStr, EmptyStr, EmptyStr, EmptyStr, EmptyStr)
SnapTemplate == Snapshot(NameMarker, EmptyStr, Week1, EmptyStr, EmptyStr)
SnapFoundation ==
    Snapshot(ClientA, Jane, FoundationMarker \o <<"2">>, EmptyStr, EmptyStr)
Snapshots ==
    {SnapE2E, SnapOld, SnapNoName, SnapBlank, SnapTemplate, SnapFoundation}

\* ------------------------------------------------------------ retry policy
Min2(a, b) == IF a < b THEN a ELSE b
Max2(a, b) == IF a > b THEN a ELSE b

\* stop=stop_after_attempt(5)
stop_after_attempt_Six(attempt_number) == attempt_number > StopAfterAttempt

stop_after_attempt(attempt_number) == attempt_number >= StopAfterAttempt

\* wait=wait_exponential(multiplier=1, min=1, max=60), in seconds
wait_exponential(attempt_number) ==
    Max2(Max2(0, WaitMin),
         Min2(WaitMultiplier * 2 ^ (attempt_number - 1), WaitMax))

\* The functions that carry @common_retry.
RetriedOps == {"fetch_list_of_files_in_folder", "create_new_spreadsheet",
               "share_spreadsheet", "copy_workout_to_new_spreadsheet",
               "get_worksheet_from_data", "rename_worksheet",
               "delete_empty_sheet1", "delete_client_data",
               "get_all_records_for_sheet", "open_spreadsheet_by_key",
               "get_client", "get_worksheets_in_spreadsheet"}

\* Remote calls made with no decorator around them.
DirectOps == {"get_canary_cells", "del_spreadsheet"}

RemoteOps == RetriedOps \cup DirectOps

\* A remote operation that succeeds `lead` times, then fails `fails` times,
\* then succeeds on every later attempt: whether its n-th attempt fails.
RemoteFails(lead, fails, n) == lead < n /\ n <= lead + fails

\* A remote operation that fails on its first `fails` attempts and succeeds
\* on every later one.
AttemptFails(fails, attempt_number) == RemoteFails(0, fails, attempt_number)

\* tenacity's loop: call, and on an exception either give up with RetryError
\* or sleep and call again.
RECURSIVE RetryLoop(_, _)
RetryLoop(fails, attempt_number) ==
    IF ~AttemptFails(fails, attempt_number)
    THEN [ok |-> TRUE, exc |-> "none", attempts |-> attempt_number]
    ELSE IF stop_after_attempt(attempt_number)
    THEN [ok |-> FALSE, exc |-> "RetryError", attempts |-> attempt_number]
    ELSE RetryLoop(fails, attempt_number + 1)

\* What the caller of remote call `op` sees.
CallOutcome(op, fails) ==
    IF op \in RetriedOps
    THEN RetryLoop(fails, 1)
    ELSE IF AttemptFails(fails, 1)
    THEN [ok |-> FALSE, exc |-> "APIError", attempts |-> 1]
    ELSE [ok |-> TRUE, exc |-> "none", attempts |-> 1]

FailCounts == 0..MaxFails

\* The results a caller of `op` can see, over the failure counts considered:
\* success, or the exception that reaches it.
CallResultsOf ==
    [op \in RemoteOps |->
        {[ok |-> CallOutcome(op, fails).ok, exc |-> CallOutcome(op, fails).exc] :
            fails \in FailCounts}]

\* ------------------------------------------------------------------ state
VARIABLES
    table,      \* translation_data: the rows of the translation sheet
    numDocs,    \* len(spreadsheets_to_copy)
    docIdx,     \* position of main's for-loop in spreadsheets_to_copy
    pcMain,     \* where the main thread is
    curTitle,   \* open_spreadsheet.title
    numSheets,  \* len(sheets) of the open spreadsheet
    sheetIdx,   \* position of the for-loop over sheets (1-based)
    snaps,      \* what get_canary_cells gave for each sheet reached so far
    tasks,      \* the futures of the executor, by sheet position
    rt,         \* one retried call, attempt by attempt (used by SpecRetry)
    fn,         \* one call of a pure function: arguments and result (SpecFn)
    env         \* which store the run is made against: "store", "pool", "live"

vars == <<table, numDocs, docIdx, pcMain, curTitle, numSheets, sheetIdx,
          snaps, tasks, rt, fn, env>>

pipelineVars == <<table, numDocs, docIdx, pcMain, curTitle, numSheets,
                  sheetIdx, snaps, tasks>>

NoSnap == <<"unreadable">>
NoTitle == <<>>
NoTasks == <<>>
RtIdle == [op |-> "none", lead |-> 0, fails |-> 0, attempt |-> 0,
           outer |-> 0, phase |-> 0, remote |-> 0, status |-> "idle",
           exc |-> "none", slept |-> 0]

FnIdle == [op |-> "none"]

NoDest == [state |-> "absent", title |-> NoTitle, shared |-> FALSE,
           sheets |-> <<>>, renamed |-> FALSE, cleared |-> "none"]

TerminalPcs == {"returned", "failed", "failed_manual_cleanup", "raised"}

IsTerminal(t) == t.pc \in TerminalPcs
IsRunning(t) == t.pc # "queued" /\ ~IsTerminal(t)

Submitted == DOMAIN tasks

\* The main thread's place among the callers of remote functions; the task
\* of sheet position i is caller i.
MainThread == 0

\* One worksheet more than the executor has workers.
PoolSheets == MaxWorkers + 1

\* The store of the pipeline runs: spreadsheets of up to MaxSheets worksheets,
\* any of the snapshots, and every remote call of every caller can fail.
StoreEnv == [sheet_counts |-> 0..MaxSheets, snapshots |-> Snapshots,
             failing |-> (0..Max2(MaxSheets, PoolSheets)) \X RemoteOps]

\* A store whose spreadsheets have more worksheets than the executor has
\* workers, all of them workouts, and where the calls that can fail are the
\* sharing and the redaction of the last worksheet's task.
PoolEnv == [sheet_counts |-> {PoolSheets}, snapshots |-> {SnapOld},
            failing |-> {PoolSheets} \X
                           {"share_spreadsheet", "delete_client_data"}]

\* The store of the pipeline runs with two kinds of worksheet only: a workout
\* with a client name, and a blank one.
LiveEnv == [sheet_counts |-> 0..MaxSheets, snapshots |-> {SnapE2E, SnapBlank},
            failing |-> (0..Max2(MaxSheets, PoolSheets)) \X RemoteOps]

\* The store of this run.
Env == IF env = "pool" THEN PoolEnv
       ELSE IF env = "live" THEN LiveEnv
       ELSE StoreEnv

\* What `caller` can see of its remote call `op` in this run.
CallResults(caller, op) ==
    IF <<caller, op>> \in Env.failing THEN CallResultsOf[op]
    ELSE {r \in CallResultsOf[op] : r.ok}

\* ------------------------------------------------------------ main thread
\* Leaving the body of main's for-loop: the next spreadsheet, or the end.
NextDocument ==
    /\ docIdx' = docIdx + 1
    /\ pcMain' = IF docIdx + 1 > numDocs THEN "done" ELSE "open"
    /\ curTitle' = NoTitle
    /\ numSheets' = 0
    /\ sheetIdx' = 0
    /\ snaps' = <<>>
    /\ tasks' = NoTasks

\* main, line 457: open the next spreadsheet of the folder listing.
OpenSpreadsheet ==
    /\ pcMain = "open"
    /\ \E title \in Titles, out \in CallResults(MainThread, "open_spreadsheet_by_key") :
             IF out.ok
             THEN /\ pcMain' = "check"
                  /\ curTitle' = title
                  /\ UNCHANGED <<docIdx, numSheets, sheetIdx, snaps, tasks>>
             ELSE NextDocument
    /\ UNCHANGED <<table, numDocs, rt, fn, env>>

\* main, line 464: the guard on the translation sheet.
CheckShouldProcess ==
    /\ pcMain = "check"
    /\ IF should_process_spreadsheet(curTitle, table)
       THEN /\ pcMain' = "list"
            /\ UNCHANGED <<docIdx, curTitle, numSheets, sheetIdx, snaps, tasks>>
       ELSE NextDocument
    /\ UNCHANGED <<table, numDocs, rt, fn, env>>

\* separate_and_copy_all_sheets_to_folder, lines 104-113.
GetWorksheets ==
    /\ pcMain = "list"
    /\ \E n \in Env.sheet_counts, out \in CallResults(MainThread, "get_worksheets_in_spreadsheet") :
             IF out.ok
             THEN /\ numSheets' = n
                  /\ sheetIdx' = 1
                  /\ pcMain' = IF n = 0 THEN "wait" ELSE "scan"
                  /\ UNCHANGED <<docIdx, curTitle, snaps, tasks>>
             ELSE NextDocument
    /\ UNCHANGED <<table, numDocs, rt, fn, env>>

NewTask(canary_cells, previous_description) ==
    [pc |-> "queued",
     canary_cells |-> canary_cells,
     previous_description |-> previous_description,
     title |-> NoTitle,
     dest |-> NoDest,
     reports |-> {},
     exc |-> "none"]

ScanSheet_StopsOnFailure ==
    /\ pcMain = "scan"
    /\ sheetIdx <= numSheets
    /\ \E canary_cells \in Env.snapshots,
          out \in CallResults(MainThread, "get_canary_cells") :
         LET previous_description == get_workout_description(canary_cells)
         IN  IF ~out.ok
             THEN /\ snaps' = Append(snaps, NoSnap)
                  /\ tasks' = tasks
                  /\ pcMain' = "wait"
             ELSE /\ snaps' = Append(snaps, canary_cells)
                  /\ tasks' =
                       IF is_valid_workout(canary_cells, previous_description)
                       THEN tasks @@ (sheetIdx :>
                                NewTask(canary_cells, previous_description))
                       ELSE tasks
                  /\ pcMain' = IF sheetIdx + 1 > numSheets
                               THEN "wait" ELSE "scan"
    /\ sheetIdx' = sheetIdx + 1
    /\ UNCHANGED <<table, numDocs, docIdx, curTitle, numSheets, rt, fn, env>>

\* One iteration of the for-loop over sheets, lines 115-136.
ScanSheet ==
    /\ pcMain = "scan"
    /\ sheetIdx <= numSheets
    /\ \E canary_cells \in Env.snapshots, out \in CallResults(MainThread, "get_canary_cells") :
         LET previous_description == get_workout_description(canary_cells)
         IN  IF ~out.ok
             THEN /\ snaps' = Append(snaps, NoSnap)
                  /\ tasks' = tasks
             ELSE /\ snaps' = Append(snaps, canary_cells)
                  /\ tasks' =
                       IF is_valid_workout(canary_cells, previous_description)
                       THEN tasks @@ (sheetIdx :>
                                NewTask(canary_cells, previous_description))
                       ELSE tasks
    /\ sheetIdx' = sheetIdx + 1
    /\ pcMain' = IF sheetIdx + 1 > numSheets THEN "wait" ELSE "scan"
    /\ UNCHANGED <<table, numDocs, docIdx, curTitle, numSheets, rt, fn, env>>

\* Lines 138-139: as_completed hands over a future whose task raised, and
\* future.result() raises it again in the main thread.
FutureResultRaises ==
    /\ pcMain = "wait"
    /\ \E i \in Submitted : tasks[i].pc = "raised"
    /\ pcMain' = "unwind"
    /\ UNCHANGED <<table, numDocs, docIdx, curTitle, numSheets, sheetIdx,
                   snaps, tasks, rt, fn, env>>

\* Lines 138-139 and the end of the with-block: every future completed and
\* none raised; the executor shuts down and main's loop goes on.
ExecutorExit ==
    /\ pcMain = "wait"
    /\ \A i \in Submitted : IsTerminal(tasks[i]) /\ tasks[i].pc # "raised"
    /\ NextDocument
    /\ UNCHANGED <<table, numDocs, rt, fn, env>>

\* The with-block left by an exception: shutdown(wait=True) lets the
\* submitted tasks finish, then the exception leaves
\* separate_and_copy_all_sheets_to_folder and main (nothing catches it).
ExecutorExitRaising ==
    /\ pcMain = "unwind"
    /\ \A i \in Submitted : IsTerminal(tasks[i])
    /\ pcMain' = "crashed"
    /\ UNCHANGED <<table, numDocs, docIdx, curTitle, numSheets, sheetIdx,
                   snaps, tasks, rt, fn, env>>

\* ----------------------------------------------------------- worker pool
SetTask(i, t) ==
    /\ tasks' = [tasks EXCEPT ![i] = t]
    /\ UNCHANGED <<table, numDocs, docIdx, pcMain, curTitle, numSheets,
                   sheetIdx, snaps, rt, fn, env>>

Report(t, messages) == [t EXCEPT !.reports = @ \cup messages]

StartTask_Unbounded(i) ==
    /\ i \in Submitted
    /\ tasks[i].pc = "queued"
    /\ \A j \in Submitted : tasks[j].pc = "queued" => i <= j
    /\ SetTask(i, [tasks[i] EXCEPT
                     !.pc = "create",
                     !.title = get_dest_spreadsheet_title(
                                  curTitle, i - 1,
                                  tasks[i].previous_description, table)])

\* ThreadPoolExecutor(max_workers=5): a worker takes the oldest queued task
\* when fewer than max_workers are busy.  process_sheet, lines 157-159.
StartTask(i) ==
    /\ i \in Submitted
    /\ tasks[i].pc = "queued"
    /\ \A j \in Submitted : tasks[j].pc = "queued" => i <= j
    /\ Cardinality({j \in Submitted : IsRunning(tasks[j])}) < MaxWorkers
    /\ SetTask(i, [tasks[i] EXCEPT
                     !.pc = "create",
                     !.title = get_dest_spreadsheet_title(
                                  curTitle, i - 1,
                                  tasks[i].previous_description, table)])

\* create_and_share_new_spreadsheet, lines 81-85.  After a failed create it
\* returns None, and process_sheet's dest_spreadsheet.id (line 165) raises
\* inside the try of the copy, which reports and returns.
CreateSpreadsheet(i) ==
    /\ i \in Submitted
    /\ tasks[i].pc = "create"
    /\ \E out \in CallResults(i, "create_new_spreadsheet") :
         LET t == tasks[i]
         IN  IF out.ok
             THEN SetTask(i, [t EXCEPT
                     !.pc = "share",
                     !.dest = [state |-> "present", title |-> t.title,
                               shared |-> FALSE, sheets |-> <<"Sheet1">>,
                               renamed |-> FALSE, cleared |-> "none"]])
             ELSE SetTask(i, [Report(t, {"create_error", "copy_error"})
                                EXCEPT !.pc = "failed"])

\* create_and_share_new_spreadsheet, lines 87-94: only an APIError is caught.
ShareSpreadsheet(i) ==
    /\ i \in Submitted
    /\ tasks[i].pc = "share"
    /\ \E out \in CallResults(i, "share_spreadsheet") :
         LET t == tasks[i]
         IN  IF out.ok
             THEN SetTask(i, [t EXCEPT !.pc = "copy", !.dest.shared = TRUE])
             ELSE IF out.exc = "APIError"
             THEN SetTask(i, [Report(t, {"already_shared"})
                                EXCEPT !.pc = "copy"])
             ELSE SetTask(i, [t EXCEPT !.pc = "raised", !.exc = out.exc])

CopyWorkout_GoesOn(i) ==
    /\ i \in Submitted
    /\ tasks[i].pc = "copy"
    /\ \E out \in CallResults(i, "copy_workout_to_new_spreadsheet") :
         LET t == tasks[i]
         IN  IF out.ok
             THEN SetTask(i, [t EXCEPT
                     !.pc = "locate",
                     !.dest.sheets = Append(@, "copy")])
             ELSE SetTask(i, [Report(t, {"copy_error"})
                                EXCEPT !.pc = "locate"])

\* process_sheet, line 165 (and 167-169).
CopyWorkout(i) ==
    /\ i \in Submitted
    /\ tasks[i].pc = "copy"
    /\ \E out \in CallResults(i, "copy_workout_to_new_spreadsheet") :
         LET t == tasks[i]
         IN  IF out.ok
             THEN SetTask(i, [t EXCEPT
                     !.pc = "locate",
                     !.dest.sheets = Append(@, "copy")])
             ELSE SetTask(i, [Report(t, {"copy_error"})
                                EXCEPT !.pc = "failed"])

\* process_sheet, line 166 (and 167-169).
GetWorksheetFromData(i) ==
    /\ i \in Submitted
    /\ tasks[i].pc = "locate"
    /\ \E out \in CallResults(i, "get_worksheet_from_data") :
         LET t == tasks[i]
         IN  IF out.ok
             THEN SetTask(i, [t EXCEPT !.pc = "rename"])
             ELSE SetTask(i, [Report(t, {"copy_error"})
                                EXCEPT !.pc = "failed"])

\* process_sheet, line 172 (and 174-178: report, then go on).
RenameWorksheet(i) ==
    /\ i \in Submitted
    /\ tasks[i].pc = "rename"
    /\ \E out \in CallResults(i, "rename_worksheet") :
         LET t == tasks[i]
         IN  IF out.ok
             THEN SetTask(i, [t EXCEPT
                     !.pc = "delete_sheet1", !.dest.renamed = TRUE])
             ELSE SetTask(i, [Report(t, {"rename_error"})
                                EXCEPT !.pc = "redact"])

DeleteEmptySheet1_DeletesLast(i) ==
    /\ i \in Submitted
    /\ tasks[i].pc = "delete_sheet1"
    /\ \E out \in CallResults(i, "delete_empty_sheet1") :
         LET t == tasks[i]
         IN  IF out.ok
             THEN SetTask(i, [t EXCEPT
                     !.pc = "redact",
                     !.dest.sheets = SubSeq(@, 1, Len(@) - 1)])
             ELSE SetTask(i, [Report(t, {"rename_error"})
                                EXCEPT !.pc = "redact"])

\* process_sheet, line 173 (and 174-178).  sheet1 is the first worksheet.
DeleteEmptySheet1(i) ==
    /\ i \in Submitted
    /\ tasks[i].pc = "delete_sheet1"
    /\ \E out \in CallResults(i, "delete_empty_sheet1") :
         LET t == tasks[i]
         IN  IF out.ok
             THEN SetTask(i, [t EXCEPT
                     !.pc = "redact", !.dest.sheets = Tail(@)])
             ELSE SetTask(i, [Report(t, {"rename_error"})
                                EXCEPT !.pc = "redact"])

DeleteClientData_NoCleanup(i) ==
    /\ i \in Submitted
    /\ tasks[i].pc = "redact"
    /\ LET t == tasks[i]
           range == RedactionRange(t.canary_cells)
       IN  IF range = "none"
           THEN SetTask(i, [t EXCEPT !.pc = "returned"])
           ELSE \E out \in CallResults(i, "delete_client_data") :
                      IF out.ok
                      THEN SetTask(i, [t EXCEPT
                              !.pc = "returned", !.dest.cleared = range])
                      ELSE SetTask(i, [Report(t, {"redact_error"})
                                         EXCEPT !.pc = "failed"])

\* process_sheet, lines 180-185, with delete_client_data (261-274).  With no
\* name in the snapshot no remote call is made and nothing can fail.
DeleteClientData(i) ==
    /\ i \in Submitted
    /\ tasks[i].pc = "redact"
    /\ LET t == tasks[i]
           range == RedactionRange(t.canary_cells)
       IN  IF range = "none"
           THEN SetTask(i, [t EXCEPT !.pc = "returned"])
           ELSE \E out \in CallResults(i, "delete_client_data") :
                      IF out.ok
                      THEN SetTask(i, [t EXCEPT
                              !.pc = "returned", !.dest.cleared = range])
                      ELSE SetTask(i, [Report(t, {"redact_error"})
                                         EXCEPT !.pc = "delete_dest"])

DelSpreadsheet_Silent(i) ==
    /\ i \in Submitted
    /\ tasks[i].pc = "delete_dest"
    /\ \E out \in CallResults(i, "del_spreadsheet") :
         LET t == tasks[i]
         IN  IF out.ok
             THEN SetTask(i, [t EXCEPT
                     !.pc = "failed",
                     !.dest.state = "deleted", !.dest.sheets = <<>>])
             ELSE SetTask(i, [t EXCEPT !.pc = "failed"])

DelSpreadsheet_StartsOver(i) ==
    /\ i \in Submitted
    /\ tasks[i].pc = "delete_dest"
    /\ \E out \in CallResults(i, "del_spreadsheet") :
         LET t == tasks[i]
         IN  IF out.ok
             THEN SetTask(i, [t EXCEPT
                     !.pc = "failed",
                     !.dest.state = "deleted", !.dest.sheets = <<>>])
             ELSE SetTask(i, [Report(t, {"delete_error", "manual"})
                                EXCEPT !.pc = "redact"])

\* process_sheet, lines 186-194: the destination spreadsheet is deleted when
\* the client data could not be.
DelSpreadsheet(i) ==
    /\ i \in Submitted
    /\ tasks[i].pc = "delete_dest"
    /\ \E out \in CallResults(i, "del_spreadsheet") :
         LET t == tasks[i]
         IN  IF out.ok
             THEN SetTask(i, [t EXCEPT
                     !.pc = "failed",
                     !.dest.state = "deleted", !.dest.sheets = <<>>])
             ELSE SetTask(i, [Report(t, {"delete_error", "manual"})
                                EXCEPT !.pc = "failed_manual_cleanup"])

\* ---------------------------------------------------------- specification
\* The state main is in when its for-loop starts (line 455): the folder
\* listing and the translation rows are loaded.
Init ==
    /\ table = RowsOf(RawTable)
    /\ numDocs = MaxDocs
    /\ docIdx = 1
    /\ pcMain = "open"
    /\ curTitle = NoTitle
    /\ numSheets = 0
    /\ sheetIdx = 0
    /\ snaps = <<>>
    /\ tasks = NoTasks
    /\ rt = RtIdle
    /\ fn = FnIdle
    /\ env = "store"

SheetPositions == 1..Max2(MaxSheets, PoolSheets)

Next ==
    \/ OpenSpreadsheet
    \/ CheckShouldProcess
    \/ GetWorksheets
    \/ ScanSheet
    \/ FutureResultRaises
    \/ ExecutorExit
    \/ ExecutorExitRaising
    \/ \E i \in SheetPositions : StartTask(i)
    \/ \E i \in SheetPositions : CreateSpreadsheet(i)
    \/ \E i \in SheetPositions : ShareSpreadsheet(i)
    \/ \E i \in SheetPositions : CopyWorkout(i)
    \/ \E i \in SheetPositions : GetWorksheetFromData(i)
    \/ \E i \in SheetPositions : RenameWorksheet(i)
    \/ \E i \in SheetPositions : DeleteEmptySheet1(i)
    \/ \E i \in SheetPositions : DeleteClientData(i)
    \/ \E i \in SheetPositions : DelSpreadsheet(i)

Spec == Init /\ [][Next]_vars

\* The same program with its threads kept running: the main thread and the
\* executor's workers are never all held back while one of them has a step
\* to take (a remote call returns or raises; tenacity's sleeps end).
InitLive ==
    /\ table = RowsOf(RawTable)
    /\ numDocs = MaxDocs
    /\ docIdx = 1
    /\ pcMain = "open"
    /\ curTitle = NoTitle
    /\ numSheets = 0
    /\ sheetIdx = 0
    /\ snaps = <<>>
    /\ tasks = NoTasks
    /\ rt = RtIdle
    /\ fn = FnIdle
    /\ env = "live"

SpecLive == InitLive /\ [][Next]_vars /\ WF_vars(Next)

\* -------------------------------------------- more sheets than workers
\* The same program over a store whose spreadsheets have PoolSheets valid
\* worksheets, so that the executor's queue fills beyond max_workers.
InitPool ==
    /\ table = RowsOf(RawTable)
    /\ numDocs = MaxDocs
    /\ docIdx = 1
    /\ pcMain = "open"
    /\ curTitle = NoTitle
    /\ numSheets = 0
    /\ sheetIdx = 0
    /\ snaps = <<>>
    /\ tasks = NoTasks
    /\ rt = RtIdle
    /\ fn = FnIdle
    /\ env = "pool"

SpecPool == InitPool /\ [][Next]_vars

\* ------------------------------------------- one call, attempt by attempt
MaxLead == 1

RtFinished == rt.status \in {"returned", "raised", "exited"}

\* A call of one of the remote functions starts.
BeginCall ==
    /\ rt.status = "idle"
    /\ \E op \in RemoteOps, fails \in FailCounts :
         rt' = [RtIdle EXCEPT !.op = op, !.fails = fails, !.outer = 1,
                              !.status = "calling"]
    /\ UNCHANGED <<pipelineVars, fn, env>>

\* One attempt of the wrapped function: it returns, or its exception goes to
\* tenacity, which stops or sleeps (lines 22-25); with no decorator the
\* exception goes straight to the caller.
CallAttempt ==
    /\ rt.status = "calling"
    /\ rt.op \in RemoteOps
    /\ LET n == rt.attempt + 1
           r == [rt EXCEPT !.attempt = n, !.remote = @ + 1]
       IN  rt' = IF ~AttemptFails(rt.fails, n)
                 THEN [r EXCEPT !.status = "returned"]
                 ELSE IF rt.op \in DirectOps
                 THEN [r EXCEPT !.status = "raised", !.exc = "APIError"]
                 ELSE IF stop_after_attempt(n)
                 THEN [r EXCEPT !.status = "raised", !.exc = "RetryError"]
                 ELSE [r EXCEPT !.status = "sleeping"]
    /\ UNCHANGED <<pipelineVars, fn, env>>

\* The back-off between two attempts.
CallSleep ==
    /\ rt.status = "sleeping"
    /\ rt' = [rt EXCEPT !.status = "calling",
                        !.slept = @ + wait_exponential(rt.attempt)]
    /\ UNCHANGED <<pipelineVars, fn, env>>

\* get_translation_data (lines 384-397) starts: itself retried, and calling
\* the retried get_all_records_for_sheet twice, the first time in a try.
BeginTranslationData ==
    /\ rt.status = "idle"
    /\ \E lead \in 0..MaxLead, fails \in FailCounts :
         rt' = [RtIdle EXCEPT !.op = "get_translation_data", !.lead = lead,
                              !.fails = fails, !.outer = 1, !.phase = 1,
                              !.status = "calling"]
    /\ UNCHANGED <<pipelineVars, fn, env>>

\* One attempt of sheet.get_all_records() inside get_translation_data.  The
\* first call's RetryError is answered with exit(); the second call's leaves
\* the body and is the outer decorator's to retry.
TranslationDataAttempt ==
    /\ rt.status = "calling"
    /\ rt.op = "get_translation_data"
    /\ LET n == rt.attempt + 1
           r == [rt EXCEPT !.attempt = n, !.remote = @ + 1]
       IN  rt' = IF ~RemoteFails(rt.lead, rt.fails, rt.remote + 1)
                 THEN (IF rt.phase = 1
                       THEN [r EXCEPT !.phase = 2, !.attempt = 0]
                       ELSE [r EXCEPT !.status = "returned"])
                 ELSE IF ~stop_after_attempt(n)
                 THEN [r EXCEPT !.status = "sleeping"]
                 ELSE IF rt.phase = 1
                 THEN [r EXCEPT !.status = "exited", !.exc = "SystemExit"]
                 ELSE IF stop_after_attempt(rt.outer)
                 THEN [r EXCEPT !.status = "raised", !.exc = "RetryError"]
                 ELSE [r EXCEPT !.status = "outer_sleeping"]
    /\ UNCHANGED <<pipelineVars, fn, env>>

\* The outer decorator's back-off, then get_translation_data's body again.
TranslationDataRetry ==
    /\ rt.status = "outer_sleeping"
    /\ rt' = [rt EXCEPT !.status = "calling", !.phase = 1, !.attempt = 0,
                        !.outer = @ + 1,
                        !.slept = @ + wait_exponential(rt.outer)]
    /\ UNCHANGED <<pipelineVars, fn, env>>

InitRetry == Init

NextRetry ==
    \/ BeginCall
    \/ CallAttempt
    \/ CallSleep
    \/ BeginTranslationData
    \/ TranslationDataAttempt
    \/ TranslationDataRetry

SpecRetry == InitRetry /\ [][NextRetry]_vars

\* ------------------------------------------------- one function, one call
MaxRows == 2
MaxSheetIndex == 10
MaxDescLen == 200

\* Cell contents the classification is tried on: nothing, the template
\* marker, a description naming the foundation series, a plain value.
CellValues == {EmptyStr, NameMarker, FoundationMarker \o <<"2">>, Jane}

\* Raw records a translation sheet can hold: a description may be blank.
RawRows == {<<name, description, EmptyStr>> :
               name \in {ClientA, ClientB},
               description \in {EmptyStr, UpperBody, Legs}}

RawTables == UNION {[1..n -> RawRows] : n \in 0..MaxRows}

RepeatChar(c, n) == [k \in 1..n |-> c]

\* Descriptions around the 175-character limit of the title.
Descriptions ==
    {Week1} \cup
    {RepeatChar(c, n) : c \in {"a", "B", SharpS},
                        n \in {0, MaxTitleLen - 20, MaxTitleLen - 12,
                               MaxTitleLen, MaxDescLen}}

\* Worksheets with or without a name in B1 and in B3 (and a value in A1).
SourceSheets ==
    {[c \in SheetCells |->
         IF c = <<1, 1>> THEN a1
         ELSE IF c = <<1, 2>> THEN b1
         ELSE IF c = <<3, 2>> THEN b3
         ELSE IF c \in {<<1, 3>>, <<1, 4>>} THEN EmptyStr
         ELSE Week1] :
        a1 \in {EmptyStr, ClientA}, b1 \in {EmptyStr, Jane},
        b3 \in {EmptyStr, Jane}}

\* Worksheets of a destination spreadsheet: every cell outside B1:D1 and B3
\* is filled, and each of B1, C1, D1, B3 is filled or not.
DestSheets ==
    {[c \in SheetCells |->
         IF c \in filled \/ c \notin {<<1, 2>>, <<1, 3>>, <<1, 4>>, <<3, 2>>}
         THEN Bob ELSE EmptyStr] :
        filled \in SUBSET {<<1, 2>>, <<1, 3>>, <<1, 4>>, <<3, 2>>}}

\* Lines 116-127: the canary cells of a worksheet are read, the description
\* is taken from them, and the worksheet is classified.
ClassifySheet ==
    /\ fn = FnIdle
    /\ \E a1 \in CellValues, b1 \in CellValues, b2 \in CellValues,
          b3 \in CellValues, b4 \in CellValues :
         LET canary_cells == Snapshot(a1, b1, b2, b3, b4)
             previous_description == get_workout_description(canary_cells)
         IN  fn' = [op |-> "is_valid_workout",
                    cells |-> <<a1, b1, b2, b3, b4>>,
                    canary_cells |-> canary_cells,
                    previous_description |-> previous_description,
                    result |-> is_valid_workout(canary_cells,
                                                previous_description)]
    /\ UNCHANGED <<pipelineVars, rt, env>>

\* translate_workout_name on a title and a translation table.
TranslateWorkoutName ==
    /\ fn = FnIdle
    /\ \E source_title \in Titles, records \in RawTables :
         fn' = [op |-> "translate_workout_name",
                source_title |-> source_title,
                translated_data |-> RowsOf(records),
                result |-> translate_workout_name(source_title,
                                                  RowsOf(records))]
    /\ UNCHANGED <<pipelineVars, rt, env>>

\* get_dest_spreadsheet_title on a worksheet title, index and description.
GetDestSpreadsheetTitle ==
    /\ fn = FnIdle
    /\ \E source_title \in {ClientA, ClientC}, sheet_index \in 0..MaxSheetIndex,
          previous_description \in Descriptions :
         fn' = [op |-> "get_dest_spreadsheet_title",
                source_title |-> source_title,
                sheet_index |-> sheet_index,
                previous_description |-> previous_description,
                translated_data |-> table,
                result |-> get_dest_spreadsheet_title(
                               source_title, sheet_index,
                               previous_description, table)]
    /\ UNCHANGED <<pipelineVars, rt, env>>

\* delete_client_data on a destination worksheet, with the canary cells that
\* were read from the source worksheet (lines 116 and 181).
RedactSheet ==
    /\ fn = FnIdle
    /\ \E source \in SourceSheets, sheet \in DestSheets :
         LET canary_cells == get_canary_cells(source)
             done == delete_client_data(canary_cells, sheet)
         IN  fn' = [op |-> "delete_client_data",
                    canary_cells |-> canary_cells,
                    source |-> source,
                    sheet |-> sheet,
                    calls |-> done.calls,
                    result |-> done.sheet]
    /\ UNCHANGED <<pipelineVars, rt, env>>

\* The call is over.
FnReturn ==
    /\ fn # FnIdle
    /\ fn' = FnIdle
    /\ UNCHANGED <<pipelineVars, rt, env>>

InitFn == Init

NextFn ==
    \/ ClassifySheet
    \/ TranslateWorkoutName
    \/ GetDestSpreadsheetTitle
    \/ RedactSheet
    \/ FnReturn

SpecFn == InitFn /\ [][NextFn]_vars

\* ================================================================ claims
TaskAt(i) == tasks[i]

\* The end-to-end scenario: the open spreadsheet is "Client A" and its two
\* sheets answered with ["", "Jane", "Week 1", "", ""] and with nothing.
E2EScenario ==
    /\ curTitle = ClientA
    /\ snaps = << << <<>>, << <<Jane>> >>, << <<Week1>> >>, <<>>, <<>> >>,
                  << <<>>, <<>>, <<>>, <<>>, <<>> >> >>

E2EClaimedTitle ==
    <<"W","e","e","k"," ","1"," ","-"," ",
      "u","p","p","e","r"," ","b","o","d","y"," ","1">>

E2EActualTitle ==
    <<" ","-"," ","U","p","p","e","r"," ","B","o","d","y"," ","1">>

\* C1 as stated: in the end-to-end scenario exactly one task is submitted,
\* for record 1, record 2 gets none, and the destination spreadsheet is
\* titled "Week 1 - <translated Client A> 1".
C1_EndToEndAsStated ==
    E2EScenario =>
        /\ Submitted = {1}
        /\ TaskAt(1).dest.state # "absent" =>
               TaskAt(1).dest.title = E2EClaimedTitle

\* C1 amended: in the end-to-end scenario exactly one task is submitted, for
\* record 1, record 2 gets none (so no write is made for it), and the
\* destination spreadsheet is titled " - Upper Body 1": cell A1 is empty, so
\* the description is read from B4 (empty), and the title is title-cased.
C1_EndToEnd ==
    E2EScenario =>
        /\ Submitted = {1}
        /\ 2 \notin Submitted
        /\ TaskAt(1).pc # "queued" => TaskAt(1).title = E2EActualTitle
        /\ TaskAt(1).dest.state # "absent" =>
               TaskAt(1).dest.title = E2EActualTitle

C1_Witness ==
    /\ E2EScenario
    /\ 1 \in Submitted
    /\ TaskAt(1).pc = "returned"
    /\ TaskAt(1).dest.state = "present"

DeletionAttempted(t) ==
    t.dest.state = "deleted" \/ "delete_error" \in t.reports

C4_FailureConfined ==
    /\ pcMain = "crashed" => docIdx >= numDocs
    /\ pcMain \in {"crashed", "done"} =>
           \A i \in Submitted : IsTerminal(TaskAt(i))

\* C5 as stated: a share call that fails on every attempt is treated as
\* success: the task goes on to the copy and no exception leaves it.
C5_ShareErrorIsSuccess ==
    \A i \in Submitted :
        /\ TaskAt(i).pc # "raised"
        /\ TaskAt(i).exc = "none"

\* C6: a task exists for a sheet only if the snapshot read from that sheet is
\* valid: it is not blank, cell A1 is not "Name: " and the description does
\* not contain "Foundation 1"; the task carries that snapshot.
C6_InvalidNeverSubmitted ==
    \A i \in Submitted :
        /\ i <= Len(snaps)
        /\ snaps[i] # NoSnap
        /\ TaskAt(i).canary_cells = snaps[i]
        /\ snaps[i] # <<<<>>, <<>>, <<>>, <<>>, <<>>>>
        /\ snaps[i][1] # << <<NameMarker>> >>
        /\ ~StrContains(get_workout_description(snaps[i]), FoundationMarker)

C6_Witness ==
    /\ Len(snaps) = 2
    /\ snaps[1] = SnapBlank
    /\ snaps[2] = SnapOld
    /\ Submitted = {2}
    /\ TaskAt(2).dest.state = "present"

\* The first row for `title` exists and does not say skip.
Reviewed(title) ==
    \E j \in DOMAIN table :
        /\ table[j].original_name = title
        /\ ~table[j].skip
        /\ \A h \in 1..(j - 1) : table[h].original_name # title

\* C7: the check of the translation sheet lets a spreadsheet through exactly
\* when the first row with its title does not say skip (none when there is no
\* such row), and sheets are listed, tasks submitted and destination
\* spreadsheets created only for a spreadsheet let through.
C7_OnlyReviewedMigrated ==
    /\ [](pcMain \in {"list", "scan", "wait", "unwind", "crashed"}
            \/ Submitted # {} => Reviewed(curTitle))
    /\ [][pcMain = "check" => (pcMain' = "list" <=> Reviewed(curTitle))]_vars

C7_Witness ==
    /\ curTitle = ClientA
    /\ \E i \in Submitted : TaskAt(i).dest.state = "present"

\* C8: a retried call whose operation fails k times and then succeeds
\* returns after exactly k+1 attempts when k < 5, and raises after exactly 5
\* attempts otherwise; no call makes a 6th attempt.  The same holds of the
\* calls get_translation_data makes, whose failure ends the run by exit().
C8_RetryBound ==
    /\ rt.attempt <= 5
    /\ rt.outer <= 5
    /\ (rt.op \in RetriedOps /\ RtFinished) =>
          /\ IF rt.fails < 5
             THEN rt.status = "returned" /\ rt.attempt = rt.fails + 1
             ELSE rt.status = "raised" /\ rt.attempt = 5
          /\ CallOutcome(rt.op, rt.fails) =
                [ok |-> rt.status = "returned", exc |-> rt.exc,
                 attempts |-> rt.attempt]
    /\ (rt.op = "get_translation_data" /\ RtFinished /\ rt.lead = 0) =>
          IF rt.fails < 5
          THEN rt.status = "returned" /\ rt.remote = rt.fails + 2
          ELSE rt.status = "exited" /\ rt.remote = 5

C8_Witness ==
    /\ rt.op = "share_spreadsheet"
    /\ rt.fails = 3
    /\ rt.status = "returned"
    /\ rt.attempt = 4

\* C9 as stated: every remote call of the pipeline survives a single
\* transient failure: it is attempted again and returns.
C9_EveryCallRetried ==
    (rt.op \in RemoteOps /\ rt.fails = 1 /\ RtFinished) =>
        rt.status = "returned"

\* C10: a task whose redaction failed and whose destination spreadsheet
\* could not be deleted ends in the manual-cleanup state with the redaction
\* error, the deletion error and the manual instruction all reported; when
\* the deletion succeeds nothing about manual cleanup is reported.
C10_ManualCleanupReported ==
    \A i \in Submitted :
        /\ (/\ IsTerminal(TaskAt(i))
            /\ "redact_error" \in TaskAt(i).reports
            /\ TaskAt(i).dest.state = "present")
           => /\ TaskAt(i).pc = "failed_manual_cleanup"
              /\ {"redact_error", "delete_error", "manual"}
                    \subseteq TaskAt(i).reports
        /\ TaskAt(i).pc = "failed_manual_cleanup" =>
              /\ TaskAt(i).dest.state = "present"
              /\ {"redact_error", "delete_error", "manual"}
                    \subseteq TaskAt(i).reports
        /\ TaskAt(i).dest.state = "deleted" =>
              /\ TaskAt(i).pc = "failed"
              /\ "redact_error" \in TaskAt(i).reports
              /\ "manual" \notin TaskAt(i).reports
              /\ "delete_error" \notin TaskAt(i).reports

C10_Witness ==
    \E i \in Submitted :
        /\ TaskAt(i).pc = "failed_manual_cleanup"
        /\ TaskAt(i).dest.state = "present"

\* C11: for every five-cell snapshot, is_valid_workout, given the description
\* get_workout_description resolved, answers false exactly when cell 0 is
\* "Name: ", or the description contains "Foundation 1", or every cell is
\* empty; so the all-empty snapshot is invalid, and a snapshot whose cell 0 is
\* the marker is invalid whatever the other four cells hold.
C11_ValidityTable ==
    fn.op = "is_valid_workout" =>
        LET marker == fn.cells[1] = NameMarker
            foundation ==
                \E k \in 0..(Len(fn.previous_description) - 12) :
                    SubSeq(fn.previous_description, k + 1, k + 12)
                        = <<"F","o","u","n","d","a","t","i","o","n"," ","1">>
            blank == \A k \in 1..5 : fn.cells[k] = <<>>
        IN  /\ fn.result = ~(marker \/ foundation \/ blank)
            /\ blank => fn.result = FALSE
            /\ marker => fn.result = FALSE

C11_Witness ==
    /\ fn.op = "is_valid_workout"
    /\ fn.cells = <<NameMarker, Jane, Jane, Jane, Jane>>
    /\ fn.result = FALSE

\* C12: get_workout_description returns the cell at position 2 (B2, the new
\* layout) when cell 0 (A1) is not empty and the cell at position 4 (B4, the
\* old layout) when cell 0 is empty; the cell at position 1 has no part in
\* the choice, and a cell the response has no value for reads as "".
C12_LayoutResolution ==
    fn.op = "is_valid_workout" =>
        LET Read(k) == IF fn.canary_cells[k] = <<>> THEN <<>> ELSE fn.cells[k]
        IN  /\ \A k \in 1..5 : fn.cells[k] = <<>> <=> fn.canary_cells[k] = <<>>
            /\ fn.canary_cells[1] # <<>> => fn.previous_description = Read(3)
            /\ fn.canary_cells[1] = <<>> => fn.previous_description = Read(5)

C12_Witness ==
    /\ fn.op = "is_valid_workout"
    /\ fn.cells = <<EmptyStr, Jane, NameMarker, Jane, EmptyStr>>
    /\ fn.canary_cells[5] = <<>>
    /\ fn.previous_description = EmptyStr

\* C13 as stated: translate_workout_name returns the description of the
\* first entry, in table order, whose original_name equals the title, and
\* returns the source title unchanged exactly when no entry matches.
C13_TranslationAsStated ==
    fn.op = "translate_workout_name" =>
        LET hits == {j \in DOMAIN fn.translated_data :
                        fn.translated_data[j].original_name = fn.source_title}
        IN  /\ hits # {} =>
                  \E j \in hits :
                      /\ \A h \in hits : j <= h
                      /\ fn.result = fn.translated_data[j].description
            /\ fn.result = fn.source_title <=> hits = {}

\* C13 amended: for every title and table (duplicate original_name values
\* and blank descriptions included) translate_workout_name looks at the first
\* entry, in table order, whose original_name equals the title only: it
\* returns that entry's description when it is not empty, and the source
\* title unchanged when no entry matches or that description is empty, even
\* if a later matching entry has a description.
C13_FirstMatchTranslation ==
    fn.op = "translate_workout_name" =>
        LET hits == {j \in DOMAIN fn.translated_data :
                        fn.translated_data[j].original_name = fn.source_title}
        IN  /\ hits = {} => fn.result = fn.source_title
            /\ \A j \in hits :
                  (\A h \in hits : j <= h) =>
                      fn.result =
                          IF fn.translated_data[j].description # <<>>
                          THEN fn.translated_data[j].description
                          ELSE fn.source_title

C13_Witness ==
    /\ fn.op = "translate_workout_name"
    /\ fn.source_title = ClientA
    /\ Len(fn.translated_data) = 2
    /\ fn.translated_data[1].original_name = ClientA
    /\ fn.translated_data[1].description = EmptyStr
    /\ fn.translated_data[2].original_name = ClientA
    /\ fn.translated_data[2].description = UpperBody
    /\ fn.result = ClientA

\* The text before the count: description + " - " + translated name, cut to
\* its first 175 characters.
C14_Cut ==
    LET joined == fn.previous_description \o <<" ", "-", " ">>
                     \o translate_workout_name(fn.source_title,
                                                fn.translated_data)
    IN  IF Len(joined) > 175 THEN SubSeq(joined, 1, 175) ELSE joined

C14_Suffix == <<" ">> \o IntToStr(fn.sheet_index + 1)

\* C14 as stated: the destination title is the description, " - " and the
\* translated name, cut to the first 175 characters, followed by a space and
\* the decimal digits of the position p, and its length never exceeds
\* 175 + 1 + digits(p).
C14_TitleAsStated ==
    fn.op = "get_dest_spreadsheet_title" =>
        /\ fn.result = C14_Cut \o C14_Suffix
        /\ Len(fn.result) <= 175 + Len(C14_Suffix)

\* C14 amended: the destination title is the title-cased form (str.title) of
\* that string; the cut to 175 characters is made before the suffix is added
\* and title-casing leaves the space and the digits alone, so the title always
\* ends with the complete suffix " p"; its length is at most
\* 175 + 1 + digits(p) when title-casing maps each character to one
\* character, and grows by one for each character it maps to two.
C14_TitleConstruction ==
    fn.op = "get_dest_spreadsheet_title" =>
        LET longer == {k \in DOMAIN C14_Cut :
                          /\ C14_Cut[k] = SharpS
                          /\ (k > 1 => ~IsCased(C14_Cut[k - 1]))}
        IN  /\ fn.result = StrTitle(C14_Cut \o C14_Suffix)
            /\ Len(C14_Cut) <= 175
            /\ Len(fn.result) > Len(C14_Suffix)
            /\ SubSeq(fn.result, Len(fn.result) - Len(C14_Suffix) + 1,
                      Len(fn.result)) = C14_Suffix
            /\ Len(fn.result) =
                   Len(C14_Cut) + Len(C14_Suffix) + Cardinality(longer)
            /\ longer = {} => Len(fn.result) <= 175 + Len(C14_Suffix)

C14_Witness ==
    /\ fn.op = "get_dest_spreadsheet_title"
    /\ Len(fn.previous_description) > MaxTitleLen
    /\ fn.previous_description[1] = "a"
    /\ fn.sheet_index = 9
    /\ Len(fn.result) = MaxTitleLen + 3
    /\ fn.result[1] = "A"
    /\ fn.result[MaxTitleLen + 2] = "1"
    /\ fn.result[MaxTitleLen + 3] = "0"

\* C15: delete_client_data makes exactly one clear of the range B1:D1 when
\* the snapshot's new-layout name (position 1, B1) is not empty, exactly one
\* clear of the cell B3 when that name is empty and the old-layout name
\* (position 3, B3) is not, and no remote call when both are empty; the
\* choice follows the snapshot read from the source worksheet before the
\* copy, whatever the destination worksheet holds.
C15_RedactionPolicy ==
    fn.op = "delete_client_data" =>
        LET new_name == fn.source[<<1, 2>>]
            old_name == fn.source[<<3, 2>>]
        IN  /\ fn.canary_cells[2] = (IF new_name = <<>> THEN <<>>
                                     ELSE << <<new_name>> >>)
            /\ fn.canary_cells[4] = (IF old_name = <<>> THEN <<>>
                                     ELSE << <<old_name>> >>)
            /\ new_name # <<>> => fn.calls = <<"B1:D1">>
            /\ (new_name = <<>> /\ old_name # <<>>) => fn.calls = <<"B3">>
            /\ (new_name = <<>> /\ old_name = <<>>) =>
                  fn.calls = <<>> /\ fn.result = fn.sheet

C15_Witness ==
    /\ fn.op = "delete_client_data"
    /\ fn.source[<<1, 2>>] = EmptyStr
    /\ fn.source[<<3, 2>>] = Jane
    /\ fn.sheet[<<1, 2>>] = Bob
    /\ fn.sheet[<<3, 2>>] = EmptyStr
    /\ fn.calls = <<"B3">>

\* C20: when the snapshot has a name both in B1 and in B3, delete_client_data
\* clears the range B1:D1 only and leaves B3 of the destination worksheet as
\* it was; and whatever the snapshot, no cell outside B1:D1 and B3 is written.
C20_RedactionFrame ==
    fn.op = "delete_client_data" =>
        LET B1D1 == {<<1, 2>>, <<1, 3>>, <<1, 4>>}
            B3 == <<3, 2>>
            written == {c \in DOMAIN fn.sheet : fn.result[c] # fn.sheet[c]}
        IN  /\ DOMAIN fn.result = DOMAIN fn.sheet
            /\ written \subseteq B1D1 \cup {B3}
            /\ \A c \in written : fn.result[c] = <<>>
            /\ (fn.canary_cells[2] # <<>> /\ fn.canary_cells[4] # <<>>) =>
                  /\ fn.calls = <<"B1:D1">>
                  /\ \A c \in B1D1 : fn.result[c] = <<>>
                  /\ fn.result[B3] = fn.sheet[B3]

C20_Witness ==
    /\ fn.op = "delete_client_data"
    /\ fn.canary_cells[2] = << <<Jane>> >>
    /\ fn.canary_cells[4] = << <<Jane>> >>
    /\ fn.sheet[<<1, 2>>] = Bob
    /\ fn.sheet[<<3, 2>>] = Bob
    /\ fn.result[<<1, 2>>] = EmptyStr
    /\ fn.result[<<3, 2>>] = Bob

\* The tasks a worker is executing.
C16_Executing == {i \in Submitted : IsRunning(TaskAt(i))}

\* C16: in every reachable state at most 5 migration tasks are executing,
\* all of them for worksheets of the one spreadsheet that is open; and main
\* moves on to the next spreadsheet (so that it can be opened and its tasks
\* started) only when every task submitted for the current one has reached a
\* terminal state, whether it succeeded or failed.
C16_PoolWidthAndBarrier ==
    /\ [](/\ Cardinality(C16_Executing) <= 5
          /\ C16_Executing # {} =>
                /\ docIdx <= numDocs
                /\ pcMain \in {"scan", "wait", "unwind"}
          /\ \A i \in Submitted :
                /\ i <= Len(snaps)
                /\ TaskAt(i).canary_cells = snaps[i])
    /\ [][docIdx' # docIdx =>
             /\ \A i \in Submitted : TaskAt(i).pc \in TerminalPcs
             /\ tasks' = <<>>
             /\ pcMain' \in {"open", "done"}]_vars
    /\ [][pcMain' = "open" =>
             \A i \in Submitted : TaskAt(i).pc \in TerminalPcs]_vars

C16_Witness ==
    /\ docIdx = 2
    /\ Cardinality(C16_Executing) = 5
    /\ \E i \in Submitted : TaskAt(i).pc = "queued"

C18_PerDocumentRecovery ==
    /\ [](/\ pcMain \in {"open", "check", "list", "done"} => tasks = <<>>
          /\ pcMain = "scan" =>
                Len(snaps) = sheetIdx - 1 /\ sheetIdx <= numSheets
          /\ pcMain \in {"wait", "unwind", "crashed"} =>
                Len(snaps) = numSheets
          /\ \A k \in DOMAIN snaps :
                k \in Submitted <=>
                    /\ snaps[k] # <<"unreadable">>
                    /\ is_valid_workout(snaps[k],
                                        get_workout_description(snaps[k])))
    /\ [][(\/ pcMain = "open" /\ pcMain' # "check"
           \/ pcMain = "list" /\ pcMain' \notin {"scan", "wait"})
          => /\ docIdx' = docIdx + 1
             /\ tasks' = <<>>
             /\ pcMain' = IF docIdx < numDocs THEN "open" ELSE "done"]_vars

C18_Witness ==
    /\ docIdx = 2
    /\ pcMain = "wait"
    /\ numSheets = 2
    /\ snaps = <<NoSnap, SnapOld>>
    /\ Submitted = {2}

\* C19 as stated: in every terminal state of a task, whatever calls failed,
\* if the destination spreadsheet still exists and holds the copied
\* worksheet, then either the redaction completed without error or the
\* spreadsheet has been reported for manual cleanup.
C19_NoSilentLeak ==
    \A i \in Submitted :
        (/\ TaskAt(i).pc \in TerminalPcs
         /\ TaskAt(i).dest.state = "present"
         /\ \E n \in DOMAIN TaskAt(i).dest.sheets :
                TaskAt(i).dest.sheets[n] = "copy")
        => \/ /\ TaskAt(i).pc = "returned"
              /\ "redact_error" \notin TaskAt(i).reports
              /\ TaskAt(i).dest.cleared = RedactionRange(TaskAt(i).canary_cells)
           \/ "manual" \in TaskAt(i).reports

\* The run is over: main's for-loop is exhausted, or an exception has left
\* main; no task is queued or executing.
C21_Finished ==
    /\ pcMain \in {"done", "crashed"}
    /\ \A i \in Submitted : TaskAt(i).pc \in TerminalPcs

\* C21: whatever the spreadsheets, their worksheets and the failures of the
\* remote calls (calls that fail on every attempt included), the run
\* eventually finishes and stays finished, and every submitted task reaches
\* a terminal state: a task leaves the executor's list only in a terminal
\* state, a terminal task never runs again, and every remote call a step
\* makes has returned or given up within 5 attempts.
C21_Termination ==
    /\ <>[]C21_Finished
    /\ [][\A i \in Submitted :
             /\ i \notin DOMAIN tasks' => TaskAt(i).pc \in TerminalPcs
             /\ (i \in DOMAIN tasks' /\ TaskAt(i).pc \in TerminalPcs) =>
                    tasks'[i] = TaskAt(i)]_vars
    /\ [](\A op \in RemoteOps : \A fails \in FailCounts :
             CallOutcome(op, fails).attempts <= 5)

C21_Witness ==
    /\ pcMain = "crashed"
    /\ \E i \in Submitted : TaskAt(i).pc = "raised"
    /\ \E i \in Submitted : TaskAt(i).pc = "failed_manual_cleanup"

====
